---- MODULE Spec2Model ----
(***************************************************************************)
(* backup-warden: a daemon that mirrors a watched folder into dated backup *)
(* directories, prunes them to a retention count and takes a monthly       *)
(* snapshot on the last day of each month (src/src/main.rs).               *)
(*                                                                         *)
(* The model has the main thread of main() as one process, stepped at the  *)
(* granularity of one backup location per step, next to the change         *)
(* monitor (PollWatcher) that feeds the mpsc channel, the wall clock and   *)
(* the user editing the watched folder.                                    *)
(***************************************************************************)
EXTENDS Integers, Sequences, FiniteSets, TLC

(***************************************************************************)
(* Bounds of the model.                                                    *)
(***************************************************************************)
\* largest retention_days the configuration is drawn from
MaxRetention == 2
\* number of midnights the wall clock passes in a run
MaxDays == 2
\* number of notifications the change monitor sends in a run
MaxEvents == 2
\* number of times the watched folder is edited in a run
MaxEdits == 1

(***************************************************************************)
(* chrono: NaiveDate, date + Duration::days(1), format("%Y-%m-%d"),        *)
(* format("%I %p").  A formatted string is the sequence of its ASCII       *)
(* codes, so that formatting is not the identity and ordering of names is  *)
(* the byte-wise ordering Path uses.                                       *)
(***************************************************************************)
is_leap_year(y) == (y % 4 = 0 /\ y % 100 # 0) \/ y % 400 = 0

days_in_month(y, m) ==
    IF m = 2 THEN (IF is_leap_year(y) THEN 29 ELSE 28)
    ELSE IF m \in {4, 6, 9, 11} THEN 30 ELSE 31

\* date + chrono::Duration::days(1)
succ_day(d) ==
    IF d.day < days_in_month(d.year, d.month)
        THEN [d EXCEPT !.day = d.day + 1]
    ELSE IF d.month < 12
        THEN [year |-> d.year, month |-> d.month + 1, day |-> 1]
    ELSE [year |-> d.year + 1, month |-> 1, day |-> 1]

\* a check by day number instead of by the next day's month
is_last_day_by_number(date) == date.day >= 28

\* a check by the month's length in a common year
is_last_day_no_leap(date) ==
    date.day >= (IF date.month = 2 THEN 28 ELSE days_in_month(date.year, date.month))

is_last_day_of_month(date) ==
    LET next_day == succ_day(date)
    IN  next_day.month # date.month

Digit(n) == 48 + n
Pad2(n) == <<Digit((n \div 10) % 10), Digit(n % 10)>>
Pad4(n) == <<Digit((n \div 1000) % 10), Digit((n \div 100) % 10),
             Digit((n \div 10) % 10), Digit(n % 10)>>

\* format("%Y-%m-%d"), 45 is '-'
format_date(d) == Pad4(d.year) \o <<45>> \o Pad2(d.month) \o <<45>> \o Pad2(d.day)

\* format!("@{}", now.format("%I %p")): '@', 12-hour clock, ' ', AM/PM
format_hour(h) ==
    LET h12 == IF h % 12 = 0 THEN 12 ELSE h % 12
    IN  <<64>> \o Pad2(h12) \o <<32, IF h < 12 THEN 65 ELSE 80, 77>>

\* Ord of Path / OsStr for entries of one directory: byte-wise lexicographic
LexLess(a, b) ==
    \E i \in 1..(Len(a) + 1) :
        /\ \A j \in 1..(i - 1) : j <= Len(b) /\ a[j] = b[j]
        /\ \/ i = Len(a) + 1 /\ Len(b) >= i
           \/ i <= Len(a) /\ i <= Len(b) /\ a[i] < b[i]

(***************************************************************************)
(* Directory trees.  A directory is a function from entry names to nodes;  *)
(* a node is a file with its data or a directory with its children.        *)
(***************************************************************************)
EmptyDir == [n \in {} |-> 0]
FileNode(data) == [is_dir |-> FALSE, data |-> data, children |-> EmptyDir]
DirNode(children) == [is_dir |-> TRUE, data |-> 0, children |-> children]

\* the directory `dir` with entry `name` set to `node`
WithEntry(dir, name, node) ==
    [n \in DOMAIN dir \cup {name} |-> IF n = name THEN node ELSE dir[n]]

\* the directory `dir` without the entries named in `names`
WithoutEntries(dir, names) == [n \in DOMAIN dir \ names |-> dir[n]]

\* the children of directory `name` of `dir`, empty when it does not exist yet
\* (fs::create_dir_all creates it)
SubDir(dir, name) == IF name \in DOMAIN dir THEN dir[name].children ELSE EmptyDir

RECURSIVE copy_dir_all_appending(_, _)
\* a copy that appends to a file the destination holds already
copy_dir_all_appending(src, dst) ==
    [n \in DOMAIN dst \cup DOMAIN src |->
        IF n \notin DOMAIN src THEN dst[n]
        ELSE IF src[n].is_dir
            THEN DirNode(copy_dir_all_appending(src[n].children, SubDir(dst, n)))
        ELSE IF n \in DOMAIN dst /\ ~dst[n].is_dir
            THEN FileNode(dst[n].data + src[n].data)
        ELSE FileNode(src[n].data)]

RECURSIVE copy_dir_all(_, _)
\* the destination directory after copy_dir_all(src, dst) returned Ok
copy_dir_all(src, dst) ==
    [n \in DOMAIN dst \cup DOMAIN src |->
        IF n \notin DOMAIN src THEN dst[n]
        ELSE IF src[n].is_dir
            THEN DirNode(copy_dir_all(src[n].children, SubDir(dst, n)))
        ELSE FileNode(src[n].data)]

\* the set of names of the immediate subdirectories of `dir`
dir_names(dir) == {n \in DOMAIN dir : dir[n].is_dir}

RECURSIVE read_dir(_)
\* fs::read_dir: the entries of a directory in the order the platform gives
read_dir(names) ==
    IF names = {} THEN <<>>
    ELSE LET n == CHOOSE x \in names : TRUE
         IN  <<n>> \o read_dir(names \ {n})

(***************************************************************************)
(* Paths inside a backup location.  A path is the sequence of its          *)
(* components below the location root.                                     *)
(***************************************************************************)
RECURSIVE create_dir_all(_, _)
\* fs::create_dir_all(root.join(path)): the root afterwards
create_dir_all(root, path) ==
    IF path = <<>> THEN root
    ELSE WithEntry(root, Head(path),
                   DirNode(create_dir_all(SubDir(root, Head(path)), Tail(path))))

RECURSIVE children_at(_, _)
\* the children of the directory root.join(path), which exists
children_at(root, path) ==
    IF path = <<>> THEN root
    ELSE children_at(root[Head(path)].children, Tail(path))

RECURSIVE replace_at(_, _, _)
\* the root with the children of the directory root.join(path) replaced
replace_at(root, path, children) ==
    IF path = <<>> THEN children
    ELSE WithEntry(root, Head(path),
                   DirNode(replace_at(root[Head(path)].children, Tail(path), children)))

\* Path::exists() && Path::is_dir() of root.join(name)
is_existing_dir(root, name) == name \in DOMAIN root /\ root[name].is_dir

(***************************************************************************)
(* Configuration (src/src/config.rs), embedded at build time.              *)
(***************************************************************************)
backup_locations == <<"L1", "L2">>
Locations == {backup_locations[i] : i \in 1..Len(backup_locations)}

(***************************************************************************)
(* Inputs of the environment.                                              *)
(***************************************************************************)
\* the wall clock when the process starts: the day before a leap day
StartDate == [year |-> 2024, month |-> 2, day |-> 28]
\* hours of the day the clock is observed at: 2 AM and 2 PM
Hours == {2, 14}
StartHour == CHOOSE h \in Hours : \A g \in Hours : h <= g

\* the states of the watched folder
WatchA == [n \in {"a.txt", "sub"} |->
            IF n = "sub" THEN DirNode([m \in {"b.txt"} |-> FileNode(1)])
            ELSE FileNode(1)]
\* a.txt modified, sub/b.txt removed, c.txt created
WatchB == [n \in {"a.txt", "c.txt", "sub"} |->
            IF n = "sub" THEN DirNode(EmptyDir)
            ELSE IF n = "a.txt" THEN FileNode(2) ELSE FileNode(1)]
WatchStates == {WatchA, WatchB}

\* what a backup location holds when the process starts
OldDateA == format_date([year |-> 2024, month |-> 2, day |-> 26])
OldDateB == format_date([year |-> 2024, month |-> 2, day |-> 27])
OldSnapshot == format_date([year |-> 2024, month |-> 1, day |-> 31])
\* ".DS": a non-directory entry, sorting before every date
StrayFile == <<46, 68, 83>>
\* a location never written to
LayoutFresh == EmptyDir
\* a location whose `Past 30 Days` exists and holds no dated folder
LayoutNoDates ==
    [n \in {"Past 30 Days"} |-> DirNode([m \in {StrayFile} |-> FileNode(0)])]
\* a location holding two dated folders and a snapshot of an earlier run
LayoutUsed ==
    [n \in {"Past 30 Days", "Monthly Snapshots"} |->
        IF n = "Past 30 Days"
            THEN DirNode([m \in {OldDateA, OldDateB, StrayFile} |->
                            IF m = StrayFile THEN FileNode(0) ELSE DirNode(EmptyDir)])
        ELSE DirNode([m \in {OldSnapshot} |-> DirNode(WatchA)])]
InitialLayouts == {LayoutFresh, LayoutNoDates, LayoutUsed}

\* notify::EventKind as handle_event tells them apart
EventKinds == {"Create", "Modify", "Remove", "Access"}
\* what rx.recv_timeout returns
OkEvent(kind) == [tag |-> "event", kind |-> kind]
WatchError == [tag |-> "error", kind |-> "none"]
NotWoken == [tag |-> "none", kind |-> "none"]
Messages == {OkEvent(k) : k \in EventKinds} \cup {WatchError}

NoName == <<>>
NoDate == [year |-> 0, month |-> 0, day |-> 0]

(***************************************************************************)
(* State.                                                                  *)
(***************************************************************************)
VARIABLES
    retention_days,  \* config.retention_days
    watch,           \* the tree of config.watch_folder
    disk,            \* location -> the tree below that location's root
    now,             \* the wall clock: [date, hour]
    queue,           \* the mpsc channel from the watcher to main
    pc,              \* where the main thread is
    idx,             \* index into backup_locations of the running for loop
    startup,         \* the running backup_folder is the call of line 35
    date,            \* backup_folder's `date`
    hour,            \* backup_folder's `hour`, with the '@' of line 81
    today,           \* main's `today`, the argument of create_monthly_snapshot
    woke,            \* the event handle_event is running for, if any
    days,            \* midnights passed since the start
    emitted,         \* notifications sent since the start
    edits,           \* edits of the watched folder since the start
    backups,         \* calls of backup_folder since the start
    had_backup_dirs, \* what backup_folders_exist returned at line 33
    received         \* Create, Modify and Remove events recv_timeout has returned

vars == <<retention_days, watch, disk, now, queue, pc, idx, startup, date, hour,
          today, woke, days, emitted, edits, backups, had_backup_dirs, received>>

config_vars == <<retention_days>>
clock_vars == <<now, days>>
cycle_vars == <<idx, startup, date, hour, backups>>

PastPath == <<"Past 30 Days">>
SnapPath == <<"Monthly Snapshots">>

\* the names of the dated folders of a location root
daily_names(root) ==
    IF is_existing_dir(root, "Past 30 Days")
        THEN dir_names(children_at(root, PastPath)) ELSE {}

\* the names of the snapshot entries of a location root
snapshot_names(root) ==
    IF is_existing_dir(root, "Monthly Snapshots")
        THEN DOMAIN children_at(root, SnapPath) ELSE {}

\* a check that wants every location to hold `Past 30 Days`
backup_folders_exist_everywhere ==
    \A i \in 1..Len(backup_locations) :
        is_existing_dir(disk[backup_locations[i]], "Past 30 Days")

backup_folders_exist ==
    \E i \in 1..Len(backup_locations) :
        is_existing_dir(disk[backup_locations[i]], "Past 30 Days")

Init ==
    /\ retention_days \in 0..MaxRetention
    /\ watch = WatchA
    /\ disk \in [Locations -> InitialLayouts]
    /\ now = [date |-> StartDate, hour |-> StartHour]
    /\ queue = <<>>
    /\ pc = "start"
    /\ idx = 1
    /\ startup = FALSE
    /\ date = NoName
    /\ hour = NoName
    /\ today = NoDate
    /\ woke = NotWoken
    /\ days = 0
    /\ emitted = 0
    /\ edits = 0
    /\ backups = 0
    /\ had_backup_dirs = backup_folders_exist
    /\ received = 0

(***************************************************************************)
(* The file system work of one loop iteration over backup_locations.       *)
(***************************************************************************)
\* a backup that copies the files at the top of the watch folder only
backup_location_shallow(root, date_str, hour_str, src) ==
    LET backup_path == <<"Past 30 Days", date_str, hour_str>>
        made == create_dir_all(root, backup_path)
    IN  replace_at(made, backup_path,
                   copy_dir_all(WithoutEntries(src, dir_names(src)),
                                children_at(made, backup_path)))

\* a backup that empties the hour folder before it copies
backup_location_mirroring(root, date_str, hour_str, src) ==
    LET backup_path == <<"Past 30 Days", date_str, hour_str>>
        made == create_dir_all(root, backup_path)
    IN  replace_at(made, backup_path, copy_dir_all(src, EmptyDir))

\* backup_folder, lines 80-84 for one location, every call returning Ok
backup_location(root, date_str, hour_str, src) ==
    LET backup_path == <<"Past 30 Days", date_str, hour_str>>
        made == create_dir_all(root, backup_path)
    IN  replace_at(made, backup_path,
                   copy_dir_all(src, children_at(made, backup_path)))

\* a snapshot that first clears `Monthly Snapshots`
snapshot_location_clearing(root, date_str, src) ==
    LET monthly_snapshots_path == <<"Monthly Snapshots", date_str>>
        made == create_dir_all(WithoutEntries(root, {"Monthly Snapshots"}),
                               monthly_snapshots_path)
    IN  replace_at(made, monthly_snapshots_path, copy_dir_all(src, EmptyDir))

\* a snapshot written under `Past 30 Days`
snapshot_location_into_past(root, date_str, src) ==
    LET wrong_path == <<"Past 30 Days", date_str>>
        made == create_dir_all(root, wrong_path)
    IN  replace_at(made, wrong_path, copy_dir_all(src, children_at(made, wrong_path)))

\* create_monthly_snapshot, lines 94-101 for one location, every call returning Ok
snapshot_location(root, date_str, src) ==
    LET monthly_snapshots_path == <<"Monthly Snapshots", date_str>>
        made == create_dir_all(root, monthly_snapshots_path)
    IN  replace_at(made, monthly_snapshots_path,
                   copy_dir_all(src, children_at(made, monthly_snapshots_path)))

\* what copy_dir_all(src, dst) leaves behind when it returns Err: the entries
\* copied before the failing one
failed_copies(src, dst) ==
    {copy_dir_all([n \in S |-> src[n]], dst) :
        S \in {T \in SUBSET DOMAIN src : T = {} \/ T # DOMAIN src}}

\* the subdirectories sorted the other way round, newest first
sorted_newest_first(past) ==
    LET LexGreater(a, b) == LexLess(b, a)
    IN  SortSeq(read_dir(dir_names(past)), LexGreater)

\* daily_folders after line 131: the subdirectories sorted by path
sorted_daily_folders(past) == SortSeq(read_dir(dir_names(past)), LexLess)

\* an excess that is one short
excess_folders_one_short(past, retention) ==
    LET daily_folders == sorted_daily_folders(past)
    IN  IF Len(daily_folders) > retention
            THEN SubSeq(daily_folders, 1, Len(daily_folders) - retention - 1)
        ELSE <<>>

\* an excess taken from the newest end of the sorted list
excess_folders_newest(past, retention) ==
    LET daily_folders == sorted_daily_folders(past)
    IN  IF Len(daily_folders) > retention
            THEN SubSeq(daily_folders, retention + 1, Len(daily_folders))
        ELSE <<>>

\* the entries cleanup_old_backups removes from one `Past 30 Days`, in order
excess_folders(past, retention) ==
    LET daily_folders == sorted_daily_folders(past)
    IN  IF Len(daily_folders) > retention
            THEN SubSeq(daily_folders, 1, Len(daily_folders) - retention)
        ELSE <<>>

\* `Past 30 Days` after the first `count` entries of `doomed` are removed
remove_dirs(past, doomed, count) ==
    WithoutEntries(past, {doomed[i] : i \in 1..count})

\* cleanup_old_backups, lines 124-138 for one location, every call returning Ok
cleanup_location(root, retention) ==
    LET past == children_at(root, PastPath)
        doomed == excess_folders(past, retention)
    IN  replace_at(root, PastPath, remove_dirs(past, doomed, Len(doomed)))

\* a receive that drops what queued up behind the oldest message
after_recv_draining(q) == <<>>

\* a receive that folds the repeats of the oldest message into it
after_recv_coalescing(q) == SelectSeq(Tail(q), LAMBDA m : m # Head(q))

\* the channel after rx.recv_timeout returned its oldest message
after_recv(q) == Tail(q)

\* a match that forgets removals
triggers_backup_no_remove(kind) == kind \in {"Create", "Modify"}

\* handle_event's match on event.kind
triggers_backup(kind) == kind \in {"Create", "Modify", "Remove"}

(***************************************************************************)
(* The main thread.                                                        *)
(***************************************************************************)
\* entry of backup_folder: lines 75-77
EnterBackup(is_startup) ==
    /\ pc' = "copy"
    /\ idx' = 1
    /\ startup' = is_startup
    /\ date' = format_date(now.date)
    /\ hour' = format_hour(now.hour)
    /\ backups' = backups + 1

\* the number of backup locations; the for loops run idx over 1..NumLocations
NumLocations == Len(backup_locations)

\* a panic of the main thread ends the process: the channel and the locals of
\* main are gone, the disk stays as the failing call left it
Abort ==
    /\ pc' = "crashed"
    /\ queue' = <<>>
    /\ idx' = 1
    /\ startup' = FALSE
    /\ date' = NoName
    /\ hour' = NoName
    /\ today' = NoDate
    /\ woke' = NotWoken
    /\ UNCHANGED <<config_vars, watch, clock_vars, emitted, edits, backups,
                   had_backup_dirs, received>>

\* main, lines 32-36
Start ==
    /\ pc = "start"
    /\ IF backup_folders_exist
           THEN pc' = "wait" /\ UNCHANGED cycle_vars
       ELSE EnterBackup(TRUE)
    /\ UNCHANGED <<config_vars, watch, disk, clock_vars, queue, today, woke,
                   emitted, edits, had_backup_dirs, received>>

\* a pass of backup_folder's loop that prunes the location it has copied to
BackupCopyPruning ==
    /\ pc = "copy"
    /\ disk' = [disk EXCEPT ![backup_locations[idx]] =
                    cleanup_location(backup_location(@, date, hour, watch),
                                     retention_days)]
    /\ IF idx < NumLocations
           THEN idx' = idx + 1 /\ pc' = pc
       ELSE idx' = 1 /\ pc' = "cleanup"
    /\ UNCHANGED <<config_vars, watch, clock_vars, queue, startup, date, hour,
                   today, woke, emitted, edits, backups, had_backup_dirs, received>>

\* backup_folder, one pass of the loop of lines 79-85
BackupCopy ==
    /\ pc = "copy"
    /\ disk' = [disk EXCEPT ![backup_locations[idx]] =
                    backup_location(@, date, hour, watch)]
    /\ IF idx < NumLocations
           THEN idx' = idx + 1 /\ pc' = pc
       ELSE idx' = 1 /\ pc' = "cleanup"
    /\ UNCHANGED <<config_vars, watch, clock_vars, queue, startup, date, hour,
                   today, woke, emitted, edits, backups, had_backup_dirs, received>>

\* backup_folder, an expect of line 82 or 84 panics
BackupCopyFails ==
    /\ pc = "copy"
    /\ LET root == disk[backup_locations[idx]]
           backup_path == <<"Past 30 Days", date, hour>>
           made == create_dir_all(root, backup_path)
       IN  \E left \in {root} \cup
                   {replace_at(made, backup_path, c) :
                       c \in failed_copies(watch, children_at(made, backup_path))} :
               disk' = [disk EXCEPT ![backup_locations[idx]] = left]
    /\ Abort

\* cleanup_old_backups, one pass of the loop of lines 123-139, and the return
\* of backup_folder to its caller after the last one
Cleanup ==
    /\ pc = "cleanup"
    /\ disk' = [disk EXCEPT ![backup_locations[idx]] =
                    cleanup_location(@, retention_days)]
    /\ IF idx < NumLocations
           THEN idx' = idx + 1 /\ pc' = pc /\ UNCHANGED <<startup, date, hour>>
       ELSE /\ idx' = 1
            /\ pc' = IF startup THEN "wait" ELSE "check"
            /\ startup' = FALSE
            /\ date' = NoName
            /\ hour' = NoName
    /\ woke' = IF idx < NumLocations THEN woke ELSE NotWoken
    /\ UNCHANGED <<config_vars, watch, clock_vars, queue, today, emitted, edits,
                   backups, had_backup_dirs, received>>

\* cleanup_old_backups, the expect of line 126 or 136 panics
CleanupFails ==
    /\ pc = "cleanup"
    /\ LET root == disk[backup_locations[idx]]
           past == children_at(root, PastPath)
           doomed == excess_folders(past, retention_days)
       IN  \E count \in 0..Len(doomed) :
               /\ count < Len(doomed) \/ count = 0
               /\ disk' = [disk EXCEPT ![backup_locations[idx]] =
                              replace_at(root, PastPath,
                                         remove_dirs(past, doomed, count))]
    /\ Abort

\* main, lines 39-45: rx.recv_timeout and the match, into handle_event
Recv ==
    /\ pc = "wait"
    /\ IF queue # <<>>
           THEN /\ queue' = after_recv(queue)
                /\ IF Head(queue).tag = "event" /\ triggers_backup(Head(queue).kind)
                       THEN woke' = Head(queue) /\ EnterBackup(FALSE)
                   ELSE woke' = NotWoken /\ pc' = "check" /\ UNCHANGED cycle_vars
       ELSE /\ woke' = NotWoken
            /\ queue' = queue
            /\ pc' = "check"
            /\ UNCHANGED cycle_vars
    /\ received' = IF /\ queue # <<>>
                       /\ Head(queue).tag = "event"
                       /\ Head(queue).kind \in {"Create", "Modify", "Remove"}
                        THEN received + 1 ELSE received
    /\ UNCHANGED <<config_vars, watch, disk, clock_vars, today, emitted, edits,
                   had_backup_dirs>>

\* main, lines 48-49 and the entry of create_monthly_snapshot, line 91
Check ==
    /\ pc = "check"
    /\ IF is_last_day_of_month(now.date)
           THEN pc' = "snap" /\ today' = now.date
       ELSE pc' = "wait" /\ today' = NoDate
    /\ idx' = 1
    /\ UNCHANGED <<config_vars, watch, disk, clock_vars, queue, startup, date,
                   hour, woke, emitted, edits, backups, had_backup_dirs, received>>

\* create_monthly_snapshot, one pass of the loop of lines 93-102
SnapCopy ==
    /\ pc = "snap"
    /\ disk' = [disk EXCEPT ![backup_locations[idx]] =
                    snapshot_location(@, format_date(today), watch)]
    /\ IF idx < NumLocations
           THEN idx' = idx + 1 /\ pc' = pc /\ today' = today
       ELSE idx' = 1 /\ pc' = "wait" /\ today' = NoDate
    /\ UNCHANGED <<config_vars, watch, clock_vars, queue, startup, date, hour,
                   woke, emitted, edits, backups, had_backup_dirs, received>>

\* create_monthly_snapshot, an expect of line 98 or 101 panics
SnapCopyFails ==
    /\ pc = "snap"
    /\ LET root == disk[backup_locations[idx]]
           path == <<"Monthly Snapshots", format_date(today)>>
           made == create_dir_all(root, path)
       IN  \E left \in {root} \cup
                   {replace_at(made, path, c) :
                       c \in failed_copies(watch, children_at(made, path))} :
               disk' = [disk EXCEPT ![backup_locations[idx]] = left]
    /\ Abort

(***************************************************************************)
(* The environment: the watcher thread, the clock, the user.               *)
(***************************************************************************)
\* an event handler that copies the watch folder itself instead of sending
EmitHandling ==
    /\ pc # "crashed"
    /\ emitted < MaxEvents
    /\ \E l \in Locations :
            disk' = [disk EXCEPT ![l] =
                        backup_location(@, format_date(now.date),
                                        format_hour(now.hour), watch)]
    /\ emitted' = emitted + 1
    /\ UNCHANGED <<config_vars, watch, queue, clock_vars, pc, cycle_vars, today,
                   woke, edits, had_backup_dirs, received>>

\* PollWatcher's event handler: tx.send of an event or of an error
Emit ==
    /\ pc # "crashed"
    /\ emitted < MaxEvents
    /\ \E m \in Messages : queue' = Append(queue, m)
    /\ emitted' = emitted + 1
    /\ UNCHANGED <<config_vars, watch, disk, clock_vars, pc, cycle_vars, today,
                   woke, edits, had_backup_dirs, received>>

\* Local::now() moves on to a later hour of the day
NextHour ==
    /\ pc # "crashed"
    /\ \E h \in Hours :
            /\ h > now.hour
            /\ now' = [now EXCEPT !.hour = h]
    /\ UNCHANGED <<config_vars, watch, disk, queue, pc, cycle_vars, today, woke,
                   days, emitted, edits, had_backup_dirs, received>>

\* Local::now() moves on by a day
NextDay ==
    /\ pc # "crashed"
    /\ days < MaxDays
    /\ now' = [now EXCEPT !.date = succ_day(now.date)]
    /\ days' = days + 1
    /\ UNCHANGED <<config_vars, watch, disk, queue, pc, cycle_vars, today, woke,
                   emitted, edits, had_backup_dirs, received>>

\* the user changes the watched folder
EditWatch ==
    /\ pc # "crashed"
    /\ edits < MaxEdits
    /\ \E w \in WatchStates \ {watch} : watch' = w
    /\ edits' = edits + 1
    /\ UNCHANGED <<config_vars, disk, clock_vars, queue, pc, cycle_vars, today,
                   woke, emitted, had_backup_dirs, received>>

(***************************************************************************)
(* Specifications.                                                         *)
(***************************************************************************)
Loop == Start \/ Recv \/ BackupCopy \/ Cleanup \/ Check \/ SnapCopy
Panic == BackupCopyFails \/ CleanupFails \/ SnapCopyFails

\* the control loop next to the watcher and the calendar
Next == Loop \/ Emit \/ NextDay \/ Panic

Spec == Init /\ [][Next]_vars

\* runs without I/O failure, the main thread always scheduled.  The channel
\* does not depend on what the locations hold: these runs start with the same
\* layout at every location and the largest retention.
NextOk == Loop \/ Emit \/ NextDay
FairInit ==
    /\ Init
    /\ retention_days = MaxRetention
    /\ \A l \in Locations : disk[l] = disk[backup_locations[1]]
FairSpec == FairInit /\ [][NextOk]_vars /\ WF_vars(Loop)

\* the same with the hours of the day and the edits of the watched folder
FullNext == Next \/ NextHour \/ EditWatch
FullSpec == Init /\ [][FullNext]_vars

\* the snapshot check of main on any date of a range of years: the process
\* was started on that date beside an existing `Past 30 Days`, its wait timed
\* out and it is about to evaluate line 48
Years == {1900, 2000, 2023, 2024}
ValidDates ==
    {d \in [year : Years, month : 1..12, day : 1..31] :
        d.day <= days_in_month(d.year, d.month)}
DateInit ==
    /\ retention_days = MaxRetention
    /\ watch = WatchA
    /\ disk = [l \in Locations |-> LayoutNoDates]
    /\ now \in [date : ValidDates, hour : {StartHour}]
    /\ queue = <<>>
    /\ pc = "check"
    /\ idx = 1
    /\ startup = FALSE
    /\ date = NoName
    /\ hour = NoName
    /\ today = NoDate
    /\ woke = NotWoken
    /\ days = 0
    /\ emitted = 0
    /\ edits = 0
    /\ backups = 0
    /\ had_backup_dirs = TRUE
    /\ received = 0
DateNext == Check \/ NextDay
DateSpec == DateInit /\ [][DateNext]_vars

\* the backup cycles of one day, every file system call returning Ok, with
\* the hours of the day and the edits of the watched folder, from the starts
\* of FairInit
ContentNext ==
    Start \/ Recv \/ BackupCopy \/ Cleanup \/ Check \/ Emit \/ NextHour \/ EditWatch
ContentSpec == FairInit /\ [][ContentNext]_vars

TypeOK ==
    /\ retention_days \in 0..MaxRetention
    /\ pc \in {"start", "wait", "copy", "cleanup", "check", "snap", "crashed"}
    /\ idx \in 1..NumLocations
    /\ Len(queue) <= MaxEvents

(***************************************************************************)
(* Properties.                                                             *)
(***************************************************************************)
\* the main thread is between two cycles that write `Past 30 Days`
Idle == pc \in {"wait", "check", "snap"}

\* the number of dated folders of location l
daily_count(l) == Cardinality(daily_names(disk[l]))

\* location l started with LayoutUsed: it holds the snapshot of an earlier run
WasUsed(l) == OldSnapshot \in snapshot_names(disk[l])

\* the r greatest names of the set S in byte-wise order
Greatest(S, r) == {n \in S : Cardinality({m \in S : LexLess(n, m)}) < r}

\* C1: once a backup cycle has completed, and until the next one starts, every
\* location holds at most retention_days dated folders under `Past 30 Days`.
C1_RetentionBound ==
    (backups > 0 /\ Idle) => \A l \in Locations : daily_count(l) <= retention_days

\* a second cycle, on a later day, has pruned the oldest folder of a used location
C1_Witness ==
    /\ backups >= 2 /\ days >= 1 /\ pc = "check"
    /\ retention_days = 2
    /\ \E l \in Locations :
        /\ WasUsed(l)
        /\ daily_count(l) = retention_days
        /\ OldDateA \notin daily_names(disk[l])
        /\ OldDateB \in daily_names(disk[l])

\* a step of Cleanup that returns: one pass of cleanup_old_backups is over
CleanupPass == pc = "cleanup" /\ pc' # "crashed" /\ (idx' # idx \/ pc' # pc)

\* C2: a pass of cleanup_old_backups over a location with k dated folders and
\* retention_days = r leaves the r greatest names and removes the k - r others
\* when k > r, removes nothing when k <= r, and touches no other location.
C2_PruningSelection ==
    [][CleanupPass =>
        LET l == backup_locations[idx]
            before == daily_names(disk[l])
            after == daily_names(disk'[l])
            k == Cardinality(before)
        IN  /\ IF k > retention_days
                   THEN /\ after = Greatest(before, retention_days)
                        /\ Cardinality(before \ after) = k - retention_days
               ELSE disk'[l] = disk[l]
            /\ \A o \in Locations \ {l} : disk'[o] = disk[o]]_vars

\* the first location has been pruned from three dated folders to one
C2_Witness ==
    /\ pc = "cleanup" /\ idx = 2
    /\ retention_days = 1
    /\ WasUsed(backup_locations[1])
    /\ OldDateA \notin daily_names(disk[backup_locations[1]])
    /\ OldDateB \notin daily_names(disk[backup_locations[1]])
    /\ daily_count(backup_locations[1]) = 1
    /\ {OldDateA, OldDateB} \subseteq daily_names(disk[backup_locations[2]])

\* C3: no step removes an entry of a location's `Monthly Snapshots`.
C3_SnapshotsAppendOnly ==
    [][\A l \in Locations :
        snapshot_names(disk[l]) \subseteq snapshot_names(disk'[l])]_vars

\* a location holds the snapshot of an earlier run and one of this run, and a
\* backup cycle with its pruning has run since the start
C3_Witness ==
    /\ backups >= 1 /\ Idle
    /\ \E l \in Locations :
        /\ OldSnapshot \in snapshot_names(disk[l])
        /\ Cardinality(snapshot_names(disk[l])) >= 2

\* location l holds `Past 30 Days`
HasPast(l) == "Past 30 Days" \in DOMAIN disk[l] /\ disk[l]["Past 30 Days"].is_dir

\* some location holds a dated folder under `Past 30 Days`
SomeBackup == \E l \in Locations : daily_names(disk[l]) # {}

\* the step in which main reaches its first rx.recv_timeout
FirstWait == pc' = "wait" /\ (pc = "start" \/ (pc = "cleanup" /\ startup))

\* C4: when the control loop first waits for a change event, some location
\* holds a dated folder under `Past 30 Days`.
C4_StartupGuarantee == [][FirstWait => SomeBackup']_vars

\* C5: leaving Starting, backup_folder is called if and only if no location
\* holds `Past 30 Days`; the first wait is reached with exactly one call made in
\* that case and with none made, and the disk untouched, otherwise.
C5_StartupTrigger ==
    [][/\ (pc = "start" /\ pc' # pc) =>
            IF \E l \in Locations : HasPast(l)
                THEN pc' = "wait" /\ backups' = 0 /\ disk' = disk
            ELSE pc' = "copy" /\ startup' /\ backups' = 1
       /\ (pc = "cleanup" /\ startup /\ pc' = "wait") => backups' = 1
       /\ (startup /\ pc' # "crashed") => pc' \in {"copy", "cleanup", "wait"}]_vars

\* the first wait is reached without a backup, one location holding
\* `Past 30 Days` and another not
C5_Witness ==
    /\ pc = "wait" /\ backups = 0 /\ emitted = 0
    /\ \E l \in Locations : HasPast(l)
    /\ \E l \in Locations : ~HasPast(l)

\* the `Past 30 Days` entry of location l in the given disk, absent or a tree
PastEntries(d, l) == {n \in DOMAIN d[l] : n = "Past 30 Days"}
PastTree(d, l) == [n \in PastEntries(d, l) |-> d[l][n]]

\* C6: a wake-up starts a backup cycle if and only if it delivered an event of
\* kind Create, Modify or Remove; any other wake-up goes on to the snapshot
\* check, and outside a backup cycle no `Past 30 Days` tree changes.
C6_EventDispatch ==
    [][/\ (pc = "wait" /\ pc' # pc) =>
            /\ pc' \in {"copy", "check"}
            /\ pc' = "copy" <=>
                 /\ queue # <<>>
                 /\ Head(queue).tag = "event"
                 /\ Head(queue).kind \in {"Create", "Modify", "Remove"}
            /\ pc' = "copy" => backups' = backups + 1 /\ ~startup'
            /\ pc' = "check" => backups' = backups
       /\ pc \notin {"copy", "cleanup"} =>
            \A l \in Locations : PastTree(disk', l) = PastTree(disk, l)]_vars

\* two messages were delivered, one started a backup cycle and one did not
C6_Witness ==
    /\ pc = "check" /\ emitted = 2 /\ queue = <<>>
    /\ had_backup_dirs /\ backups = 1

\* the date is the last of its month, by the length of the month
LastOfMonth(d) == d.day = days_in_month(d.year, d.month)

\* C7: every wake-up, after its backup cycle if it has one, reaches the
\* snapshot check; the check starts the snapshot cycle for the current date if
\* and only if that date is the last day of its month, and the loop then waits.
C7_SnapshotCheck ==
    [][/\ (pc = "wait" /\ pc' \notin {pc, "copy"}) => pc' = "check"
       /\ (pc = "cleanup" /\ ~startup /\ pc' \notin {pc, "crashed"}) => pc' = "check"
       /\ (pc = "check" /\ pc' # pc) =>
            IF LastOfMonth(now.date)
                THEN pc' = "snap" /\ today' = now.date /\ idx' = 1
            ELSE pc' = "wait" /\ disk' = disk
       /\ (pc = "snap" /\ pc' \notin {pc, "crashed"}) => pc' = "wait"
       /\ (pc = "snap" /\ pc' # "crashed" /\ disk' # disk) =>
            format_date(today) \in snapshot_names(disk'[backup_locations[idx]])
       /\ pc' = "snap" => pc \in {"check", "snap"}]_vars

\* the snapshot cycle runs after the backup cycle of an event on a leap day
C7_Witness ==
    /\ pc = "snap" /\ had_backup_dirs /\ backups >= 1
    /\ today = [year |-> 2024, month |-> 2, day |-> 29]
    /\ \E l \in Locations : format_date(today) \in daily_names(disk[l])

\* message m is waiting in the channel
Queued(m) == \E i \in 1..Len(queue) : queue[i] = m

\* C8: the channel loses nothing: it changes only by a message sent at its end
\* or by the loop, waiting, taking its oldest message; and, without I/O
\* failure, every queued Create, Modify or Remove event is followed by a backup
\* cycle run for it.
C8_NoEventLost ==
    /\ [][\/ queue' = queue
          \/ \E m \in Messages : queue' = Append(queue, m)
          \/ pc = "wait" /\ queue # <<>> /\ queue' = Tail(queue)]_vars
    /\ \A k \in {"Create", "Modify", "Remove"} :
        Queued(OkEvent(k)) ~> (pc = "cleanup" /\ woke = OkEvent(k))

\* two messages wait in the channel while a cycle is writing
C8_Witness == pc \in {"copy", "cleanup", "snap"} /\ Len(queue) = 2

\* C9: a failure at one location does not keep the cycle from going on to the
\* locations after it.
C9_LocationIndependence ==
    [][(pc \in {"copy", "cleanup", "snap"} /\ idx < NumLocations)
        => pc' # "crashed"]_vars

\* C10: the control loop has no terminal state: it always has a next step.
C10_NoTerminalState == ENABLED Loop

\* a step of SnapCopy that returns: one pass of create_monthly_snapshot is over
SnapshotPass == pc = "snap" /\ pc' # "crashed" /\ (idx' # idx \/ pc' # pc)

\* C12: a pass of the snapshot cycle for date d adds the one entry d to the
\* location's `Monthly Snapshots`, or keeps it when the cycle has run for d
\* before; when the cycle ends every location holds the entry; no step of the
\* cycle changes anything under a `Past 30 Days`.
C12_SnapshotFrame ==
    [][/\ SnapshotPass =>
            LET l == backup_locations[idx]
            IN  /\ snapshot_names(disk'[l]) =
                       snapshot_names(disk[l]) \cup {format_date(today)}
                /\ \A o \in Locations \ {l} : disk'[o] = disk[o]
       /\ (SnapshotPass /\ pc' = "wait") =>
            \A l \in Locations : format_date(today) \in snapshot_names(disk'[l])
       /\ pc = "snap" =>
            \A l \in Locations : PastTree(disk', l) = PastTree(disk, l)]_vars

\* the snapshot cycle runs again for a date whose entry the first location
\* holds already, next to dated folders under `Past 30 Days`
C12_Witness ==
    /\ pc = "snap" /\ idx = 2
    /\ format_date(today) \in snapshot_names(disk[backup_locations[2]])
    /\ Cardinality(snapshot_names(disk[backup_locations[1]])) = 1
    /\ \A l \in Locations : daily_count(l) >= 1

\* C13: the snapshot cycle is entered at most once for a date: when the check
\* enters it, no location holds an entry of that date yet (the locations start
\* without an entry of any date of the run).
C13_SnapshotOncePerDate ==
    [][(pc = "check" /\ pc' = "snap") =>
        \A l \in Locations : format_date(today') \notin snapshot_names(disk[l])]_vars

\* a step of BackupCopy that returns: one pass of backup_folder's loop is over
CopyPass == pc = "copy" /\ pc' # "crashed" /\ (idx' # idx \/ pc' # pc)

\* C15 as stated: the pruner of a location runs directly after the copy to
\* that location, before the copy to the next location starts.
C15_PruneAfterEachCopy ==
    [][CopyPass => (pc' = "cleanup" /\ idx' = idx)]_vars

\* C15, amended: a backup cycle copies to every location in configuration
\* order and removes no dated folder while doing so; the pruner starts only
\* after the copy to the last location has returned, and then visits the
\* locations in the same order. A copy that fails leaves the locations
\* copied before it unpruned.
C15_CopyAllThenPruneAll ==
    [][/\ (CopyPass /\ idx < NumLocations) => (pc' = "copy" /\ idx' = idx + 1)
       /\ (CopyPass /\ idx = NumLocations) => (pc' = "cleanup" /\ idx' = 1)
       /\ pc = "copy" =>
            \A l \in Locations : daily_names(disk[l]) \subseteq daily_names(disk'[l])
       /\ (pc' = "cleanup" /\ pc # "cleanup") => (pc = "copy" /\ idx = NumLocations)
       /\ (CleanupPass /\ idx < NumLocations) => (pc' = "cleanup" /\ idx' = idx + 1)
       /\ (CleanupPass /\ idx = NumLocations) => pc' \in {"wait", "check"}]_vars

\* the first location is copied to and holds more dated folders than the
\* retention limit while the copy to the second location is still to come
C15_Witness ==
    /\ pc = "copy" /\ idx = 2
    /\ date \in daily_names(disk[backup_locations[1]])
    /\ daily_count(backup_locations[1]) > retention_days

\* q is p with one message appended, or p itself
GrewFrom(p, q) == q = p \/ (Len(q) = Len(p) + 1 /\ SubSeq(q, 1, Len(p)) = p)

\* C18: the backup trees change only in a step of the one running cycle
\* (backup copy, prune or snapshot) and only at the location that cycle is
\* at; while a cycle runs no message is taken from the channel, the watcher
\* only appends; a backup cycle starts only from the startup check or the
\* wait, a snapshot cycle only from the check after the wake-up, so no cycle
\* starts while another runs.
C18_SingleWriter ==
    [][/\ disk' # disk =>
            /\ pc \in {"copy", "cleanup", "snap"}
            /\ \A l \in Locations \ {backup_locations[idx]} : disk'[l] = disk[l]
       /\ (pc \in {"copy", "cleanup", "snap"} /\ pc' # "crashed") =>
            GrewFrom(queue, queue')
       /\ (pc' = "copy" /\ pc # "copy") => pc \in {"start", "wait"}
       /\ (pc' = "snap" /\ pc # "snap") => pc = "check"
       /\ (pc' = "cleanup" /\ pc # "cleanup") => pc = "copy"
       /\ (pc = "wait" /\ pc' # "crashed") =>
            (GrewFrom(queue, queue') \/ queue' = Tail(queue))]_vars

\* a modification and a removal wait in the channel while the snapshot cycle
\* is writing to the second location
C18_Witness ==
    /\ pc = "snap" /\ idx = 2
    /\ Len(queue) = 2
    /\ Head(queue) = OkEvent("Modify")
    /\ queue[2] = OkEvent("Remove")

\* C19: with retention_days >= 1 the date folder a backup cycle has written is
\* still there after the pruner's pass over the location, and at every
\* location when the cycle ends (the clock's date never decreases and every
\* dated folder found at the start carries an earlier date).
C19_KeepsLatestBackup ==
    [][/\ (CleanupPass /\ retention_days >= 1) =>
            date \in daily_names(disk'[backup_locations[idx]])
       /\ (CleanupPass /\ retention_days >= 1 /\ pc' # "cleanup") =>
            \A l \in Locations : date \in daily_names(disk'[l])]_vars

\* a cycle has ended with retention_days = 1 at a location that held older
\* dated folders: only the date folder of the cycle is left there
C19_Witness ==
    /\ pc \in {"wait", "check"}
    /\ retention_days = 1
    /\ backups >= 1
    /\ \E l \in Locations :
            /\ WasUsed(l)
            /\ daily_names(disk[l]) = {format_date(now.date)}

\* C20: a wake-up takes at most one message from the channel and starts at
\* most one backup cycle and at most one snapshot cycle; once the startup
\* check is over the number of backup cycles started equals the number of
\* creation, modification and removal events received, plus one when the
\* startup check started a cycle.
C20_NoCoalescing ==
    /\ [](pc # "start" =>
            backups = received + (IF had_backup_dirs THEN 0 ELSE 1))
    /\ [][/\ pc' # "crashed" => Len(queue') >= Len(queue) - 1
          /\ backups' <= backups + 1
          /\ received' <= received + 1
          /\ (backups' # backups /\ pc # "start") => received' = received + 1
          /\ pc = "snap" => pc' \in {"snap", "wait", "crashed"}]_vars

\* two events that came in one burst have been received and two backup
\* cycles have run for them, none at startup
C20_Witness ==
    /\ pc = "check"
    /\ had_backup_dirs
    /\ received = 2
    /\ backups = 2

\* the calendar, written out: the leap years among the years of the range and
\* the length of each month
LeapYears == {2000, 2024}
MonthLength(y, m) ==
    IF m = 2 THEN (IF y \in LeapYears THEN 29 ELSE 28)
    ELSE <<31, 0, 31, 30, 31, 30, 31, 31, 30, 31, 30, 31>>[m]

\* C14: is_last_day_of_month(d) holds exactly when the day of d is the length
\* of its month (28 or 29 for February by leap year, 30 or 31 otherwise), for
\* every date d of the years of the range; the snapshot check decides by it.
C14_LastDayOfMonth ==
    /\ is_last_day_of_month(now.date) <=>
            now.date.day = MonthLength(now.date.year, now.date.month)
    /\ pc = "snap" => today.day = MonthLength(today.year, today.month)
    /\ (pc = "wait" /\ days = 0) =>
            now.date.day < MonthLength(now.date.year, now.date.month)

\* the check has found 28 February of a century year that is no leap year to
\* be the last day of its month
C14_Witness ==
    /\ pc = "snap"
    /\ today = [year |-> 1900, month |-> 2, day |-> 28]

RECURSIVE tree_files(_)
\* the recursive file set of a directory: the relative path and the data of
\* every file below it
tree_files(dir) ==
    UNION {IF dir[n].is_dir
               THEN {<<(<<n>> \o f[1]), f[2]>> : f \in tree_files(dir[n].children)}
           ELSE {<<(<<n>>), dir[n].data>>} : n \in DOMAIN dir}
tree_paths(dir) == {f[1] : f \in tree_files(dir)}

RECURSIVE has_dir_at(_, _)
\* root.join(path) is an existing directory
has_dir_at(root, path) ==
    \/ path = <<>>
    \/ /\ is_existing_dir(root, Head(path))
       /\ has_dir_at(root[Head(path)].children, Tail(path))

\* the hour folder the running backup cycle writes to, and its files at
\* location l of disk d (none when the folder does not exist)
HourPath == <<"Past 30 Days", date, hour>>
HourFiles(d, l) ==
    IF has_dir_at(d[l], HourPath) THEN tree_files(children_at(d[l], HourPath)) ELSE {}

hour_names(d, l) ==
    IF has_dir_at(d[l], <<"Past 30 Days", date>>)
        THEN dir_names(children_at(d[l], <<"Past 30 Days", date>>))
    ELSE {}

\* C16: a backup cycle that finds the hour folder of its date and hour at a
\* location, left by an earlier cycle, writes into that folder and makes no
\* other; after its copy the folder holds every file of the current watch
\* folder with its current content and, unchanged, every file it held before
\* whose path is no longer in the watch folder; no path is removed from it.
C16_SameHourMerge ==
    [][(CopyPass /\ has_dir_at(disk[backup_locations[idx]], HourPath)) =>
        LET l == backup_locations[idx]
            before == HourFiles(disk, l)
            after == HourFiles(disk', l)
        IN  /\ hour_names(disk', l) = hour_names(disk, l)
            /\ after = tree_files(watch) \cup
                         {f \in before : f[1] \notin tree_paths(watch)}
            /\ {f[1] : f \in before} \subseteq {f[1] : f \in after}]_vars

\* a second cycle of the same hour has copied the edited watch folder: the
\* one hour folder of the date holds a.txt as modified, c.txt as created and
\* sub/b.txt, which the watch folder has lost
C16_Witness ==
    /\ pc = "cleanup"
    /\ watch = WatchB
    /\ backups >= 2
    /\ \A l \in Locations :
            /\ hour_names(disk, l) = {hour}
            /\ HourFiles(disk, l) =
                   {<<(<<"a.txt">>), 2>>, <<(<<"c.txt">>), 1>>, <<(<<"sub", "b.txt">>), 1>>}

\* the directories the backup cycles have run the Directory Mirror into: the
\* hour folders of every date at every location
mirror_targets ==
    UNION {LET top == IF is_existing_dir(disk[l], "Past 30 Days")
                          THEN disk[l]["Past 30 Days"].children ELSE EmptyDir
           IN  UNION {{top[d].children[h].children : h \in dir_names(top[d].children)} :
                        d \in dir_names(top)} :
           l \in Locations}

\* C17: copy_dir_all run twice in succession from an unchanged source into
\* the same destination leaves the destination tree as the first run left
\* it, for every state of the watch folder as source and every folder a
\* backup cycle has written to, or an empty one, as destination.
C17_MirrorIdempotent ==
    \A src \in WatchStates : \A dst \in mirror_targets \cup {EmptyDir} :
        LET once == copy_dir_all(src, dst)
        IN  /\ copy_dir_all(src, once) = once
            /\ tree_files(copy_dir_all(src, once)) = tree_files(once)

\* an hour folder holds the watch folder as it was before the edit, so that
\* a copy of the edited watch folder into it overwrites a.txt, adds c.txt and
\* keeps sub/b.txt
C17_Witness ==
    /\ watch = WatchB
    /\ \E dst \in mirror_targets :
            /\ tree_files(dst) = tree_files(WatchA)
            /\ copy_dir_all(watch, dst) # dst
            /\ copy_dir_all(WatchA, copy_dir_all(watch, dst)) # copy_dir_all(watch, dst)

====
